---- MODULE Spec2Model ----
(***************************************************************************)
(* Session-based authentication of opendiary-server (src/src/auth.rs).     *)
(*                                                                         *)
(* Every request handler is an async function whose suspension points are  *)
(* its store accesses (the .await of an sqlx query).  A handler is modelled *)
(* as a process that takes one atomic step per store access; the local     *)
(* computation that follows an access up to the next one belongs to the    *)
(* same step.  Any number of handlers interleave between their accesses.   *)
(*                                                                         *)
(* Strings are modelled as follows: a session id (the hex digest of 32     *)
(* random bytes) is a sequence, <<>> being the empty string and <<n>> the  *)
(* digest of the n-th random draw; Option<T> is a sequence of length 0     *)
(* (None) or 1 (Some).  Time is counted in days.                           *)
(***************************************************************************)
EXTENDS Naturals, Sequences, FiniteSets, TLC

\* ---------------------------------------------------------------- bounds
MaxTime == 3
MaxSessions == 2
MaxUsers == 2
NumSalts == 1

\* Duration::days(2), in days
SessionLifetime == 2

Procs == {"h1", "h2"}
Usernames == {"alice", "bob"}
Emails == {"a@x", "b@x"}
RegPasswords == {"", "pw1"}
LoginPasswords == {"", "pw1", "bad"}
QueryNames == {"", "alice", "bob"}
Salts == 1..NumSalts
\* the identities a login or logout request may name
LoginUuids == {1, 2}
Ssids == {<<>>} \cup {<<n>> : n \in 1..MaxSessions}
SessionIds == {<<>>} \cup {<<s>> : s \in Ssids}

VARIABLES
    users,      \* table users: set of StudentData rows
    sessions,   \* table user_sessions: set of StudentSession rows
    now,        \* Utc::now()
    drawn,      \* number of session ids drawn from thread_rng so far
    minted,     \* number of Uuid::new_v4() values generated so far
    pc,         \* per handler: the store access it is suspended at
    req,        \* per handler: the request it is serving
    local,      \* per handler: its local variables
    out,        \* the response being sent, if any: the handler, the store access
                \* it returned from, the request and the value returned
    last,       \* history: per account, the session its latest successful login
                \* returned, forgotten when a row of the account is deleted
    prev,       \* history: per handler serving a login, last of the account when
                \* the request arrived, forgotten when a row of the account is
                \* deleted
    removed     \* history: the session ids of the rows that a DELETE removed

vars == <<users, sessions, now, drawn, minted, pc, req, local, out, last, prev, removed>>

\* ------------------------------------------------------- AuthResult, Error
AuthSuccess == "Success"
SessionExpired == "SessionExpired"
InvalidSession == "InvalidSession"

ErrorOf(error, kind) == [error |-> error, kind |-> kind]
DatabaseError == ErrorOf("InternalError", "DatabaseError")
CryptoError == ErrorOf("InternalError", "CryptoError")
MissingCredentials == ErrorOf("MissingCredentials", "")
UserAlreadyExists == ErrorOf("UserAlreadyExists", "")
UserDoesNotExist == ErrorOf("UserDoesNotExist", "")
AuthenticationFailure == ErrorOf("AuthenticationFailure", "")
InvalidPayload == ErrorOf("InvalidPayload", "")

\* ------------------------------------------------------------- envelope
\* Maybe::Fine(Success::of(v)) and Maybe::Nothing(Success{success: false, ..})
Fine(v) == [variant |-> "Fine", success |-> TRUE, value |-> v]
Nothing(err) == [variant |-> "Nothing", success |-> FALSE, value |-> err]
\* Payload<T> = Result<Json<Maybe<T>>, Error>
proceeds(v) == [ok |-> TRUE, body |-> Fine(v)]
breaks(err) == [ok |-> TRUE, body |-> Nothing(err)]
\* the `?` operator: the handler returns Err(Error::from(e))
Raise(err) == [ok |-> FALSE, body |-> err]
\* ensure_authenticated's Ok(AuthResult)
OkAuth(a) == [ok |-> TRUE, body |-> [auth_result |-> a]]

\* ------------------------------------------------------------- payloads
LoggedInStudent(ssid, uuid, expires_at) ==
    [session_id |-> ssid, student_id |-> uuid, expires_at |-> expires_at]
CreatedStudent(uuid) == [student_id |-> uuid]
SessionDropped(uuid, ok) == [student_id |-> uuid, drop_success |-> ok]
SessionBasedResponse(auth_result, value) == [auth_result |-> auth_result, value |-> value]

StudentSession(ssid, uuid, expires_at) ==
    [ssid |-> ssid, belongs_to |-> uuid, expires_at |-> expires_at]
StudentData(uuid, username, email, password_hash) ==
    [uuid |-> uuid, username |-> username, email |-> email, password_hash |-> password_hash]

\* ------------------------------------------------------ credential hasher
\* Pbkdf2.hash_password(password, salt): the PHC record of salt and digest
Digest(password, salt) == <<"pbkdf2", salt, password>>
hash_password(password, salt) == [salt |-> salt, digest |-> Digest(password, salt)]
\* Pbkdf2.verify_password(password, hash).is_ok()
verify_password_always(password, hash) == TRUE
verify_password(password, hash) == Digest(password, hash.salt) = hash.digest

\* ---------------------------------------------------------------- store
\* SELECT * FROM user_sessions WHERE ssid = $1
SessionsBySsid(S, ssid) == {s \in S : s.ssid = ssid}
\* SELECT * FROM user_sessions WHERE belongs_to = $1
SessionsByOwnerUnexpired(S, uuid) == {s \in S : s.belongs_to = uuid /\ now <= s.expires_at}
SessionsByOwner(S, uuid) == {s \in S : s.belongs_to = uuid}
\* DELETE FROM user_sessions WHERE ssid = $1
DeleteBySsidKeeps(S, ssid) == S
DeleteBySsid(S, ssid) == {s \in S : s.ssid # ssid}
\* DELETE FROM user_sessions WHERE ssid = $1 AND belongs_to = $2
DeleteBySsidAndOwnerNoOwner(S, ssid, uuid) == {s \in S : s.ssid # ssid}
DeleteBySsidAndOwner(S, ssid, uuid) == {s \in S : ~(s.ssid = ssid /\ s.belongs_to = uuid)}
\* SELECT * FROM users WHERE uuid = $1
UsersByUuid(U, uuid) == {u \in U : u.uuid = uuid}
\* SELECT * FROM users WHERE username = $1
UsersByUsernameAny(U, username) == U
UsersByUsername(U, username) == {u \in U : u.username = username}
\* SELECT * FROM users WHERE username = $2 OR email = $1
UsersByUsernameOrEmailAnd(U, username, email) ==
    {u \in U : u.username = username /\ u.email = email}
UsersByUsernameOrEmail(U, username, email) ==
    {u \in U : u.username = username \/ u.email = email}

\* fetch_optional of a query ending in LIMIT 1 with no ORDER BY: None when no row
\* matches, else Some(any matching row)
FetchOptional(rows) == IF rows = {} THEN {<<>>} ELSE {<<r>> : r \in rows}

\* The persisted layout: user_sessions is keyed by ssid; users is keyed by uuid
\* with a unique constraint on username and on email.
SessionInsertAllowed(S, row) == \A s \in S : s.ssid # row.ssid
UserInsertAllowed(U, row) ==
    \A u \in U : u.uuid # row.uuid /\ u.username # row.username /\ u.email # row.email

\* the owners of the rows a DELETE removed
OwnersOf(rows) == {s.belongs_to : s \in rows}

\* ------------------------------------------------------- random sources
\* hex::encode(Sha256(thread_rng().gen::<[u8; 32]>())): a non-empty string; the
\* n-th draw differs from all earlier ones
FreshSsidRepeats(n) == <<1>>
FreshSsid(n) == <<n + 1>>
\* Uuid::new_v4()
FreshUuid(n) == n + 1

\* ------------------------------------------------------- local decisions
\* expires_at = Utc::now().add(Duration::days(2))
ExpiresAtShort(t) == t + 1
ExpiresAt(t) == t + SessionLifetime
\* Utc::now().gt(&expires_at)
IsExpiredAlways(t, expires_at) == TRUE
IsExpiredAtEqual(t, expires_at) == t >= expires_at
IsExpired(t, expires_at) == t > expires_at
\* ensure_authenticated goes to the store only for Some(non-empty ssid)
NeedsLookupIgnoresEmpty(session_id) == session_id # <<>>
NeedsLookup(session_id) == session_id # <<>> /\ session_id[1] # <<>>
\* ensure_authenticated: the value returned after the delete of an expired session
ExpiryResultDistinct == SessionExpired
ExpiryResult == InvalidSession
\* drop_session: `if auth_result != AuthResult::Success { return ... }`
DropProceedsAlways(auth_result) == TRUE
DropProceeds(auth_result) == auth_result = AuthSuccess
\* drop_session: drop_success: affected.rows_affected() >= 1
DropSuccessAlways(rows_affected) == TRUE
DropSuccess(rows_affected) == rows_affected >= 1
\* register_student: what a failed INSERT is mapped to and returned with `?`
RegisterInsertErrorAsExists == breaks(UserAlreadyExists)
RegisterInsertError == Raise(DatabaseError)
\* register_student: `if res.rows_affected() < 1`
NoRowSavedNever(rows_affected) == FALSE
NoRowSaved(rows_affected) == rows_affected < 1

\* ----------------------------------------------------------------- state
NoReq ==
    [op |-> "none", uuid |-> 0, password |-> "", username |-> "", email |-> "",
     session_id |-> <<>>]
NoLocal == [user |-> <<>>, ssid |-> <<>>, issued_at |-> 0, expires_at |-> 0]
NoOut == [by |-> "", at |-> "", req |-> NoReq, res |-> [ok |-> TRUE, body |-> [none |-> TRUE]]]

LoginReq(uuid, password) == [NoReq EXCEPT !.op = "login", !.uuid = uuid, !.password = password]
ValidateReq(session_id) == [NoReq EXCEPT !.op = "validate", !.session_id = session_id]
DropReq(ssid, uuid) == [NoReq EXCEPT !.op = "logout", !.session_id = <<ssid>>, !.uuid = uuid]
RegisterReq(username, email, password) ==
    [NoReq EXCEPT !.op = "register", !.username = username, !.email = email,
                  !.password = password]
QueryReq(username) == [NoReq EXCEPT !.op = "query", !.username = username]

\* A handler runs from the arrival of its request to its first store access
\* without touching shared state, so the entry of a handler is one step with its
\* first store access.  A response is sent off before the next step is taken.

\* handler p is at `label` and no response is waiting to be sent
At(p, label) == out = NoOut /\ pc[p] = label

\* handler p answers request r from the store access `at` ("entry": before any)
Respond(p, r, at, response) ==
    /\ pc' = [pc EXCEPT ![p] = "idle"]
    /\ req' = [req EXCEPT ![p] = NoReq]
    /\ local' = [local EXCEPT ![p] = NoLocal]
    /\ out' = [by |-> p, at |-> at, req |-> r, res |-> response]
\* handler p, serving request r with locals l, suspends at the store access `label`
Suspend(p, r, label, l) ==
    /\ pc' = [pc EXCEPT ![p] = label]
    /\ req' = [req EXCEPT ![p] = r]
    /\ local' = [local EXCEPT ![p] = l]
    /\ out' = NoOut

\* history bookkeeping: a DELETE that removed `rows` ends the outstanding session
\* of their owners
Forget(f, rows) ==
    [q \in Procs |-> IF req[q].op = "login" /\ req[q].uuid \in OwnersOf(rows)
                     THEN <<>> ELSE f[q]]
ForgetLast(rows) == [u \in LoginUuids |-> IF u \in OwnersOf(rows) THEN <<>> ELSE last[u]]

\* the response has been sent
Deliver ==
    /\ out # NoOut
    /\ out' = NoOut
    /\ UNCHANGED <<users, sessions, now, drawn, minted, pc, req, local, last, prev, removed>>

\* the clock
Tick ==
    /\ out = NoOut
    /\ now < MaxTime
    /\ now' = now + 1
    /\ out' = NoOut
    /\ UNCHANGED <<users, sessions, drawn, minted, pc, req, local, last, prev, removed>>

\* ------------------------------------------------------------ login_student
\* entry (the password check), SELECT * FROM users WHERE uuid = $1 LIMIT 1, and
\* the password verification
LoginFetchUser(p, uuid, password) ==
    /\ At(p, "idle")
    /\ LET r == LoginReq(uuid, password)
       IN IF password = ""
          THEN Respond(p, r, "entry", breaks(InvalidPayload)) /\ UNCHANGED prev
          ELSE \E db_ok \in BOOLEAN, user \in FetchOptional(UsersByUuid(users, uuid)) :
                 IF ~db_ok
                 THEN Respond(p, r, "login_user", Raise(DatabaseError)) /\ UNCHANGED prev
                 ELSE IF user = <<>>
                 THEN Respond(p, r, "login_user", breaks(UserDoesNotExist)) /\ UNCHANGED prev
                 ELSE IF ~verify_password(password, user[1].password_hash)
                 THEN Respond(p, r, "login_user", breaks(AuthenticationFailure))
                      /\ UNCHANGED prev
                 ELSE /\ Suspend(p, r, "login_session", [NoLocal EXCEPT !.user = user])
                      /\ prev' = [prev EXCEPT ![p] = last[uuid]]
    /\ UNCHANGED <<users, sessions, now, drawn, minted, last, removed>>

\* SELECT * FROM user_sessions WHERE belongs_to = $1 LIMIT 1; an existing session
\* is returned as it is, otherwise the new session id and expiry are computed
LoginFetchSession(p) ==
    /\ At(p, "login_session")
    /\ \E db_ok \in BOOLEAN, existing \in FetchOptional(SessionsByOwner(sessions, req[p].uuid)) :
         IF ~db_ok
         THEN /\ Respond(p, req[p], "login_session", Raise(DatabaseError))
              /\ prev' = [prev EXCEPT ![p] = <<>>]
              /\ UNCHANGED <<drawn, last>>
         ELSE IF existing # <<>>
         THEN LET logged == LoggedInStudent(existing[1].ssid, existing[1].belongs_to,
                                            existing[1].expires_at)
              IN /\ Respond(p, req[p], "login_session", proceeds(logged))
                 /\ last' = [last EXCEPT ![req[p].uuid] = <<logged>>]
                 /\ prev' = [prev EXCEPT ![p] = <<>>]
                 /\ UNCHANGED drawn
         ELSE /\ drawn < MaxSessions
              /\ drawn' = drawn + 1
              /\ Suspend(p, req[p], "login_insert",
                         [local[p] EXCEPT !.ssid = FreshSsid(drawn),
                                          !.issued_at = now,
                                          !.expires_at = ExpiresAt(now)])
              /\ UNCHANGED <<last, prev>>
    /\ UNCHANGED <<users, sessions, now, minted, removed>>

\* INSERT INTO user_sessions VALUES($1, $2, $3)
LoginInsert(p) ==
    /\ At(p, "login_insert")
    /\ LET row == StudentSession(local[p].ssid, local[p].user[1].uuid, local[p].expires_at)
           logged == LoggedInStudent(local[p].ssid, local[p].user[1].uuid, local[p].expires_at)
       IN \E outcome \in {"error", "zero", "one"} :
            IF outcome = "error" \/ ~SessionInsertAllowed(sessions, row)
            THEN /\ Respond(p, req[p], "login_insert", Raise(DatabaseError))
                 /\ UNCHANGED <<sessions, last>>
            ELSE IF outcome = "zero"
            THEN /\ Respond(p, req[p], "login_insert", breaks(DatabaseError))
                 /\ UNCHANGED <<sessions, last>>
            ELSE /\ sessions' = sessions \cup {row}
                 /\ Respond(p, req[p], "login_insert", proceeds(logged))
                 /\ last' = [last EXCEPT ![req[p].uuid] = <<logged>>]
    /\ prev' = [prev EXCEPT ![p] = <<>>]
    /\ UNCHANGED <<users, now, drawn, minted, removed>>

\* ------------------------------------------------------ ensure_authenticated
\* what the caller of ensure_authenticated does with its result a, obtained at the
\* store access `at` while serving r: the validate operation returns it;
\* drop_session propagates an error with `?`, returns a response without payload
\* unless a is Success, and otherwise goes on to its own delete
AuthReturn(p, r, at, a) ==
    IF r.op = "validate" \/ ~a.ok THEN Respond(p, r, at, a)
    ELSE IF DropProceeds(a.body.auth_result) THEN Suspend(p, r, "drop_delete", NoLocal)
    ELSE Respond(p, r, at, proceeds(SessionBasedResponse(a.body.auth_result, <<>>)))

\* ensure_authenticated(r.session_id) for request r: the None and is_empty tests,
\* SELECT * FROM user_sessions WHERE ssid = $1 LIMIT 1, and the expiry test
AuthRead(p, r) ==
    /\ At(p, "idle")
    /\ IF ~NeedsLookup(r.session_id)
       THEN AuthReturn(p, r, "entry", OkAuth(InvalidSession))
       ELSE \E db_ok \in BOOLEAN,
               session \in FetchOptional(SessionsBySsid(sessions, r.session_id[1])) :
              IF ~db_ok THEN AuthReturn(p, r, "auth_read", Raise(DatabaseError))
              ELSE IF session = <<>> THEN AuthReturn(p, r, "auth_read", OkAuth(InvalidSession))
              ELSE IF IsExpired(now, session[1].expires_at)
              THEN Suspend(p, r, "auth_delete", NoLocal)
              ELSE AuthReturn(p, r, "auth_read", OkAuth(AuthSuccess))
    /\ UNCHANGED <<users, sessions, now, drawn, minted, last, prev, removed>>

\* validate: ensure_authenticated(session_id)
ValidateRead(p, session_id) == AuthRead(p, ValidateReq(session_id))

\* DELETE FROM user_sessions WHERE ssid = $1
AuthDelete(p) ==
    /\ At(p, "auth_delete")
    /\ \E db_ok \in BOOLEAN :
         IF ~db_ok
         THEN /\ AuthReturn(p, req[p], "auth_delete", Raise(DatabaseError))
              /\ UNCHANGED <<sessions, last, prev, removed>>
         ELSE /\ sessions' = DeleteBySsid(sessions, req[p].session_id[1])
              /\ AuthReturn(p, req[p], "auth_delete", OkAuth(ExpiryResult))
              /\ last' = ForgetLast(sessions \ sessions')
              /\ prev' = Forget(prev, sessions \ sessions')
              /\ removed' = removed \cup {s.ssid : s \in sessions \ sessions'}
    /\ UNCHANGED <<users, now, drawn, minted>>

\* ------------------------------------------------------------- drop_session
\* entry: ensure_authenticated(Some(ssid))
DropRead(p, ssid, uuid) == AuthRead(p, DropReq(ssid, uuid))

\* DELETE FROM user_sessions WHERE ssid = $1 AND belongs_to = $2
DropDelete(p) ==
    /\ At(p, "drop_delete")
    /\ \E db_ok \in BOOLEAN :
         IF ~db_ok
         THEN /\ Respond(p, req[p], "drop_delete", Raise(DatabaseError))
              /\ UNCHANGED <<sessions, last, prev, removed>>
         ELSE LET kept == DeleteBySsidAndOwner(sessions, req[p].session_id[1], req[p].uuid)
                  rows_affected == Cardinality(sessions \ kept)
              IN /\ sessions' = kept
                 /\ Respond(p, req[p], "drop_delete",
                            proceeds(SessionBasedResponse(AuthSuccess,
                              <<SessionDropped(req[p].uuid, DropSuccess(rows_affected))>>)))
                 /\ removed' = removed \cup {s.ssid : s \in sessions \ kept}
                 /\ last' = ForgetLast(sessions \ kept)
                 /\ prev' = Forget(prev, sessions \ kept)
    /\ UNCHANGED <<users, now, drawn, minted>>

\* --------------------------------------------------------- register_student
\* entry (the password check) and SELECT * FROM users WHERE username = $2 OR
\* email = $1 LIMIT 1; when no row matches, the new StudentData is built (fresh
\* uuid, salted hash)
RegisterCheck(p, username, email, password) ==
    /\ At(p, "idle")
    /\ LET r == RegisterReq(username, email, password)
       IN IF password = ""
          THEN Respond(p, r, "entry", breaks(MissingCredentials)) /\ UNCHANGED minted
          ELSE \E db_ok \in BOOLEAN,
                  user \in FetchOptional(UsersByUsernameOrEmail(users, username, email)) :
                 IF ~db_ok
                 THEN Respond(p, r, "register_check", Raise(DatabaseError)) /\ UNCHANGED minted
                 ELSE IF user # <<>>
                 THEN Respond(p, r, "register_check", breaks(UserAlreadyExists))
                      /\ UNCHANGED minted
                 ELSE /\ minted < MaxUsers
                      /\ minted' = minted + 1
                      /\ \E salt \in Salts :
                           Suspend(p, r, "register_insert",
                                   [NoLocal EXCEPT !.user =
                                      <<StudentData(FreshUuid(minted), username, email,
                                                    hash_password(password, salt))>>])
    /\ UNCHANGED <<users, sessions, now, drawn, last, prev, removed>>

\* INSERT INTO users VALUES ($1, ..., $8)
RegisterInsert(p) ==
    /\ At(p, "register_insert")
    /\ LET row == local[p].user[1]
       IN \E outcome \in {"error", "zero", "one"} :
            IF outcome = "error" \/ ~UserInsertAllowed(users, row)
            THEN Respond(p, req[p], "register_insert", RegisterInsertError) /\ UNCHANGED users
            ELSE LET rows_affected == IF outcome = "one" THEN 1 ELSE 0
                 IN /\ users' = IF rows_affected = 1 THEN users \cup {row} ELSE users
                    /\ Respond(p, req[p], "register_insert",
                               IF NoRowSaved(rows_affected) THEN breaks(DatabaseError)
                               ELSE proceeds(CreatedStudent(row.uuid)))
    /\ UNCHANGED <<sessions, now, drawn, minted, last, prev, removed>>

\* ------------------------------------------------------------ query_user_id
\* entry (the username check) and SELECT * FROM users WHERE username = $1 LIMIT 1
QueryRead(p, username) ==
    /\ At(p, "idle")
    /\ LET r == QueryReq(username)
       IN IF username = ""
          THEN Respond(p, r, "entry", breaks(InvalidPayload))
          ELSE \E db_ok \in BOOLEAN, user \in FetchOptional(UsersByUsername(users, username)) :
                 Respond(p, r, "query_read",
                         IF ~db_ok THEN Raise(DatabaseError)
                         ELSE IF user = <<>> THEN breaks(UserDoesNotExist)
                         ELSE proceeds(CreatedStudent(user[1].uuid)))
    /\ UNCHANGED <<users, sessions, now, drawn, minted, last, prev, removed>>

\* ------------------------------------------------------------ specification
\* the session table is empty and no request is being served
InitEmpty ==
    /\ sessions = {}
    /\ now = 0
    /\ drawn = 0
    /\ pc = [p \in Procs |-> "idle"]
    /\ req = [p \in Procs |-> NoReq]
    /\ local = [p \in Procs |-> NoLocal]
    /\ out = NoOut
    /\ last = [u \in LoginUuids |-> <<>>]
    /\ prev = [p \in Procs |-> <<>>]
    /\ removed = {}

\* The account registry: registrations and lookups on an empty users table.
RegInit == InitEmpty /\ users = {} /\ minted = 0

RegNext ==
    \/ \E p \in Procs, username \in Usernames, email \in Emails, password \in RegPasswords :
         RegisterCheck(p, username, email, password)
    \/ \E p \in Procs : RegisterInsert(p)
    \/ \E p \in Procs, username \in QueryNames : QueryRead(p, username)
    \/ Deliver

RegSpec == RegInit /\ [][RegNext]_vars

\* The session authority: logins, validations and logouts over the users table
\* that the registration of alice leaves (accounts are never changed or deleted
\* afterwards); the identity 2 names no account.
Registered == {StudentData(FreshUuid(0), "alice", "a@x", hash_password("pw1", 1))}

Init == InitEmpty /\ users = Registered /\ minted = Cardinality(Registered)

Next ==
    \/ Tick
    \/ \E p \in Procs, uuid \in LoginUuids, password \in LoginPasswords :
         LoginFetchUser(p, uuid, password)
    \/ \E p \in Procs : LoginFetchSession(p)
    \/ \E p \in Procs : LoginInsert(p)
    \/ \E p \in Procs, session_id \in SessionIds : ValidateRead(p, session_id)
    \/ \E p \in Procs : AuthDelete(p)
    \/ \E p \in Procs, ssid \in Ssids, uuid \in LoginUuids : DropRead(p, ssid, uuid)
    \/ \E p \in Procs : DropDelete(p)
    \/ Deliver

Spec == Init /\ [][Next]_vars

\* ------------------------------------------------------------------ claims
LoginSucceeded(o) == o.req.op = "login" /\ o.res.ok /\ o.res.body.success
StoreFailed(o) == o.res = Raise(DatabaseError)
Token(p) == req[p].session_id[1]
\* handler p takes the step and leaves the store access it was suspended at
Leaves(p, label) == pc[p] = label /\ (pc'[p] # label \/ out'.by = p)
\* handler p takes the step that begins serving a request `op`: its entry and
\* first store access
Serves(p, op) ==
    pc[p] = "idle" /\ IF pc'[p] = "idle" THEN out'.by = p /\ out'.req.op = op
                                         ELSE req'[p].op = op
\* the request that step serves
Asked(p) == IF pc'[p] = "idle" THEN out'.req ELSE req'[p]
\* handler p takes the step and returns from the store access `label`
ReturnsFrom(p, label) == pc[p] = label /\ out'.by = p /\ out'.at = label
KnownAccount(uuid, password) ==
    \E u \in users : u.uuid = uuid /\ verify_password(password, u.password_hash)

\* C1: in every reachable state the session store holds at most one session row
\* for any one account, also when two logins for the account run concurrently.
C1_OneSessionPerAccount ==
    \A u \in LoginUuids : Cardinality(SessionsByOwner(sessions, u)) <= 1

\* C2: a login with an existing account, the correct password and no session row
\* for the account goes on to the insert, and the insert (when the store performs
\* it) adds exactly one row: owned by the account, with a session id that no row
\* has and no row ever had, expiring SessionLifetime after the issuance time; the
\* response carries that same id, owner and expiry; no other row is added, changed
\* or removed, and the accounts are untouched.
C2_Step(p) ==
    /\ (Leaves(p, "login_session") /\ SessionsByOwner(sessions, req[p].uuid) = {}
          /\ ~StoreFailed(out'))
       => /\ pc'[p] = "login_insert"
          /\ KnownAccount(req[p].uuid, req[p].password)
          /\ local'[p].issued_at = now
          /\ UNCHANGED <<sessions, users>>
    /\ (ReturnsFrom(p, "login_insert") /\ out'.res.ok /\ out'.res.body.success)
       => LET row == StudentSession(local[p].ssid, req[p].uuid,
                                    local[p].issued_at + SessionLifetime)
          IN /\ row.ssid # <<>>
             /\ SessionsBySsid(sessions, row.ssid) = {}
             /\ row.ssid \notin removed
             /\ sessions' = sessions \cup {row}
             /\ Cardinality(sessions') = Cardinality(sessions) + 1
             /\ out'.res = proceeds(LoggedInStudent(row.ssid, row.belongs_to, row.expires_at))
             /\ users' = users
C2_LoginCreatesOneSession == [][\A p \in Procs : C2_Step(p)]_vars

\* a login that found no session has inserted its row and answered, after an
\* earlier session was removed
C2_Witness ==
    /\ LoginSucceeded(out) /\ out.at = "login_insert"
    /\ StudentSession(out.res.body.value.session_id, out.req.uuid, now + SessionLifetime)
         \in sessions
    /\ removed # {}

\* C3: of two successive logins for the same account with the correct password,
\* with no deletion in between, the second returns the token, owner and expiry the
\* first returned and leaves the session store unchanged.
C3_Step(p) ==
    (pc[p] \in {"login_session", "login_insert"} /\ out'.by = p /\ LoginSucceeded(out')
       /\ prev[p] # <<>>)
    => out'.res.body.value = prev[p][1] /\ sessions' = sessions
C3_LoginIdempotent == [][\A p \in Procs : C3_Step(p)]_vars

\* C4: a validate whose read finds its token with an expiry strictly before the
\* current time goes on to the token-only delete; when the store performs it, the
\* validate returns InvalidSession, no row with that token is left, every other
\* session row and every account row is unchanged; and a token whose row was
\* removed is in no row of the store ever after.
C4_Step(p) ==
    /\ (Serves(p, "validate") /\ Asked(p).session_id # <<>> /\ ~StoreFailed(out')
          /\ \E s \in sessions : s.ssid = Asked(p).session_id[1] /\ now > s.expires_at)
       => pc'[p] = "auth_delete" /\ UNCHANGED <<sessions, users>>
    /\ (ReturnsFrom(p, "auth_delete") /\ req[p].op = "validate" /\ ~StoreFailed(out'))
       => /\ out'.res = OkAuth(InvalidSession)
          /\ sessions' = {s \in sessions : s.ssid # Token(p)}
          /\ users' = users
          /\ (SessionsBySsid(sessions, Token(p)) # {} => Token(p) \in removed')
RemovedStayGone == \A s \in sessions : s.ssid \notin removed
C4_ExpiredValidateDeletes == [][\A p \in Procs : C4_Step(p)]_vars /\ []RemovedStayGone

\* a validate has just deleted the expired row of its token and returned, and
\* another session row is still in the store
C4_Witness ==
    /\ out.req.op = "validate" /\ out.at = "auth_delete" /\ out.res = OkAuth(InvalidSession)
    /\ out.req.session_id[1] \in removed
    /\ sessions # {}

\* C5: a validate with no token or an empty token returns the value InvalidSession
\* before any store access, hence never an error, is never suspended at a store
\* access, and leaves both tables unchanged.
AbsentOrEmpty(session_id) == session_id = <<>> \/ session_id = << <<>> >>
C5_Step ==
    /\ (out'.req.op = "validate" /\ AbsentOrEmpty(out'.req.session_id) /\ out' # out)
       => /\ out'.res = OkAuth(InvalidSession)
          /\ out'.at = "entry"
          /\ UNCHANGED <<sessions, users>>
    /\ \A p \in Procs :
         (req'[p].op = "validate" /\ pc'[p] # "idle") => ~AbsentOrEmpty(req'[p].session_id)
C5_EmptyTokenInvalid == [][C5_Step]_vars

\* a validate with an empty token has been answered while the store holds sessions
C5_Witness ==
    /\ out.req.op = "validate" /\ out.req.session_id = << <<>> >>
    /\ out.res = OkAuth(InvalidSession)
    /\ sessions # {}

\* C6: a validate returns Success only from its store read and only if, at that
\* read, a row holds its token and the current time is not after the row's expiry
\* (equal still counts); with the store working it does return Success then, and
\* in every other case it returns InvalidSession, at once when no row holds the
\* token and after the delete when the row has expired.
Live(ssid) == \E s \in sessions : s.ssid = ssid /\ now <= s.expires_at
C6_Step(p) ==
    /\ (out'.by = p /\ out'.req.op = "validate" /\ out' # out)
       => /\ out'.res \in {OkAuth(AuthSuccess), OkAuth(InvalidSession), Raise(DatabaseError)}
          /\ out'.res = OkAuth(AuthSuccess)
               => (pc[p] = "idle" /\ out'.at = "auth_read" /\ Live(out'.req.session_id[1]))
    /\ (Serves(p, "validate") /\ ~AbsentOrEmpty(Asked(p).session_id) /\ ~StoreFailed(out'))
       => LET ssid == Asked(p).session_id[1]
          IN /\ Live(ssid) => out'.res = OkAuth(AuthSuccess)
             /\ SessionsBySsid(sessions, ssid) = {} => out'.res = OkAuth(InvalidSession)
             /\ (SessionsBySsid(sessions, ssid) # {} /\ ~Live(ssid))
                  => (pc'[p] = "auth_delete" /\ out' = NoOut)
    /\ (Leaves(p, "auth_delete") /\ req[p].op = "validate" /\ ~StoreFailed(out'))
       => out'.res = OkAuth(InvalidSession)
C6_SuccessIffUnexpired == [][\A p \in Procs : C6_Step(p)]_vars

\* a validate has returned Success at the very instant its session expires
C6_Witness ==
    /\ out.req.op = "validate" /\ out.res = OkAuth(AuthSuccess)
    /\ \E s \in sessions : s.ssid = out.req.session_id[1] /\ s.expires_at = now

\* C7: a logout reaches its token-and-owner delete only from the read of its
\* validation and only when that read found the token unexpired (validation
\* Success); a logout that returns from its validation returns the validation's
\* error or the validation's InvalidSession with no drop payload, and its step
\* removes no row but the expired row of the token.
C7_Step(p) ==
    /\ (pc'[p] = "drop_delete" /\ pc[p] # "drop_delete")
       => /\ pc[p] = "idle" /\ req'[p].op = "logout"
          /\ Live(req'[p].session_id[1])
          /\ UNCHANGED <<sessions, removed>>
    /\ (out'.by = p /\ out'.req.op = "logout" /\ out' # out /\ out'.at # "drop_delete")
       => /\ out'.res \in {Raise(DatabaseError),
                           proceeds(SessionBasedResponse(InvalidSession, <<>>))}
          /\ out'.at \in {"entry", "auth_read", "auth_delete"}
          /\ pc'[p] = "idle"
          /\ \A s \in sessions \ sessions' :
               s.ssid = out'.req.session_id[1] /\ now > s.expires_at
    /\ (out'.by = p /\ out'.req.op = "logout" /\ out' # out /\ out'.res.ok
          /\ out'.res.body.value.value # <<>>)
       => pc[p] = "drop_delete"
C7_LogoutValidatesFirst == [][\A p \in Procs : C7_Step(p)]_vars

\* a logout whose validation found no such token has returned InvalidSession
\* with no drop payload while the claimed owner's session is in the store
C7_Witness ==
    /\ out.req.op = "logout" /\ out.at = "auth_read"
    /\ out.res = proceeds(SessionBasedResponse(InvalidSession, <<>>))
    /\ SessionsByOwner(sessions, out.req.uuid) # {}

\* C8: the delete of a logout removes exactly the rows whose ssid is the presented
\* token and whose owner is the claimed owner, and reports drop_success true
\* exactly when it removed a row; a row of the token with another owner stays.
C8_Step(p) ==
    (ReturnsFrom(p, "drop_delete") /\ ~StoreFailed(out'))
    => LET gone == sessions \ sessions'
       IN /\ sessions' \subseteq sessions
          /\ \A s \in sessions :
               s \in gone <=> (s.ssid = Token(p) /\ s.belongs_to = req[p].uuid)
          /\ out'.res = proceeds(SessionBasedResponse(AuthSuccess,
                           <<SessionDropped(req[p].uuid, gone # {})>>))
          /\ users' = users
C8_LogoutDeletesOwnRow == [][\A p \in Procs : C8_Step(p)]_vars

\* a logout naming another owner than the token's has reported drop_success
\* false and the session is still in the store, unexpired
C8_Witness ==
    /\ out.req.op = "logout" /\ out.at = "drop_delete" /\ out.res.ok
    /\ out.res.body.value.value = <<SessionDropped(out.req.uuid, FALSE)>>
    /\ \E s \in sessions : /\ s.ssid = out.req.session_id[1]
                           /\ s.belongs_to # out.req.uuid
                           /\ now <= s.expires_at

\* C9: a logout that reports drop_success true has removed the row of its token;
\* from then on no row holds that token, every validate of it returns
\* InvalidSession (unless the store access fails), and no login returns it.
C9_Step(p) ==
    /\ (ReturnsFrom(p, "drop_delete") /\ out'.res.ok
          /\ out'.res.body.value.value[1].drop_success)
       => Token(p) \in removed' /\ SessionsBySsid(sessions', Token(p)) = {}
    /\ (Serves(p, "validate") /\ Asked(p).session_id # <<>>
          /\ Asked(p).session_id[1] \in removed /\ ~StoreFailed(out'))
       => out'.res = OkAuth(InvalidSession)
    /\ (out'.by = p /\ LoginSucceeded(out') /\ out' # out)
       => out'.res.body.value.session_id \notin removed
C9_LoggedOutStaysInvalid == [][\A p \in Procs : C9_Step(p)]_vars /\ []RemovedStayGone

\* before any session could expire, a logout has removed the session of a token,
\* a later login has issued a session, and a validate of the old token has
\* returned InvalidSession
C9_Witness ==
    /\ out.req.op = "validate" /\ out.res = OkAuth(InvalidSession)
    /\ out.req.session_id # <<>>
    /\ out.req.session_id[1] \in removed
    /\ now < SessionLifetime
    /\ \E s \in sessions : s.ssid[1] > out.req.session_id[1][1]

\* C10: a register with a non-empty password whose uniqueness lookup meets an
\* account with the same username or the same email returns UserAlreadyExists
\* (unless the lookup itself fails), never reaches the insert and adds no row.
C10_Step(p) ==
    (Serves(p, "register") /\ Asked(p).password # ""
       /\ \E u \in users : u.username = Asked(p).username \/ u.email = Asked(p).email)
    => /\ out'.by = p
       /\ out'.res \in {breaks(UserAlreadyExists), Raise(DatabaseError)}
       /\ pc'[p] = "idle"
       /\ users' = users
C10_DuplicateRejected == [][\A p \in Procs : C10_Step(p)]_vars

\* a register with the email of an existing account and another username has
\* been refused with UserAlreadyExists
C10_Witness ==
    /\ out.req.op = "register" /\ out.res = breaks(UserAlreadyExists)
    /\ out.req.password # ""
    /\ \E u \in users : u.email = out.req.email /\ u.username # out.req.username

\* C11: username and email are unique across the accounts in every reachable
\* state; an insert of register that meets an account with its username or its
\* email (a registration that passed its lookup before the other inserted) adds
\* no row and returns InternalError with kind DatabaseError, not
\* UserAlreadyExists; an insert that succeeds adds exactly its one row.
C11_Unique ==
    \A u1, u2 \in users : (u1.username = u2.username \/ u1.email = u2.email) => u1 = u2
C11_Step(p) ==
    /\ (Leaves(p, "register_insert")
          /\ \E u \in users : u.username = req[p].username \/ u.email = req[p].email)
       => /\ out'.by = p
          /\ out'.res.body = DatabaseError
          /\ out'.res # breaks(UserAlreadyExists)
          /\ users' = users
    /\ (Leaves(p, "register_insert") /\ users' # users)
       => /\ users' = users \cup {local[p].user[1]}
          /\ out'.res = proceeds(CreatedStudent(local[p].user[1].uuid))
C11_RegistrationRace == [][\A p \in Procs : C11_Step(p)]_vars /\ []C11_Unique

\* a register that passed its lookup has lost the race: its insert was refused
\* because another register with the same email and another username inserted first
C11_Witness ==
    /\ out.req.op = "register" /\ out.at = "register_insert"
    /\ out.res.body = DatabaseError
    /\ \E u \in users : u.email = out.req.email /\ u.username # out.req.username

\* C12: a successful register returns the identity of the row it has stored under
\* its username; rows of the accounts are never removed or changed; and a lookup
\* by username that meets a stored row with that username returns that row's
\* identity (unless the lookup itself fails): so a lookup after a register
\* returns the identity the register returned, whatever was registered since.
C12_Step(p) ==
    /\ (Leaves(p, "register_insert") /\ out'.res.ok /\ out'.res.body.success)
       => /\ StudentData(out'.res.body.value.student_id, req[p].username, req[p].email,
                         local[p].user[1].password_hash) \in users'
          /\ \A u \in users : u.uuid # out'.res.body.value.student_id
    /\ (Serves(p, "query") /\ ~StoreFailed(out'))
       => \A u \in users :
            u.username = Asked(p).username => out'.res = proceeds(CreatedStudent(u.uuid))
C13_AlwaysEnvelope ==
    out.req.op \in {"register", "login", "query", "logout"}
    => /\ out.res.ok
       /\ out.res.body.variant \in {"Fine", "Nothing"}
       /\ out.res.body.success <=> out.res.body.variant = "Fine"

\* C14: a login with an identity that names no account fails with
\* UserDoesNotExist, and a login with an existing identity and a password that is
\* not the one its stored hash was made from fails with AuthenticationFailure
\* (unless the account lookup itself fails); in both cases the session store is
\* unchanged and the response carries no session.
Unmatched(password, u) == \A salt \in Salts : u.password_hash # hash_password(password, salt)
C14_Refused(p, r) ==
    /\ (\A u \in users : u.uuid # r.uuid) => out'.res = breaks(UserDoesNotExist)
    /\ (\E u \in users : u.uuid = r.uuid /\ Unmatched(r.password, u))
         => out'.res = breaks(AuthenticationFailure)
    /\ ((\A u \in users : u.uuid # r.uuid)
           \/ (\E u \in users : u.uuid = r.uuid /\ Unmatched(r.password, u)))
         => /\ out'.by = p /\ pc'[p] = "idle"
            /\ ~out'.res.body.success
            /\ UNCHANGED <<sessions, drawn, removed>>
C14_Step(p) ==
    (Serves(p, "login") /\ ~StoreFailed(out')) => C14_Refused(p, Asked(p))
C14_LoginRefused == [][\A p \in Procs : C14_Step(p)]_vars

\* C14 as amended: the same for a login with a non-empty password; a login with
\* an empty password fails with InvalidPayload before the account is looked up,
\* whatever the identity.
C14_AmendedStep(p) ==
    /\ (Serves(p, "login") /\ Asked(p).password # "" /\ ~StoreFailed(out'))
       => C14_Refused(p, Asked(p))
    /\ (Serves(p, "login") /\ Asked(p).password = "")
       => /\ out'.res = breaks(InvalidPayload) /\ out'.at = "entry"
          /\ UNCHANGED <<sessions, drawn, removed>>
C14_LoginRefusedNonEmpty == [][\A p \in Procs : C14_AmendedStep(p)]_vars

\* a login with a wrong, non-empty password has been refused with
\* AuthenticationFailure while the account has a session in the store
C14_Witness ==
    /\ out.req.op = "login" /\ out.req.password = "bad"
    /\ out.res = breaks(AuthenticationFailure)
    /\ \E s \in sessions : s.belongs_to = out.req.uuid

\* C15: a register with an empty password returns MissingCredentials before any
\* store access and leaves the accounts unchanged; a register whose insert leaves
\* the accounts unchanged (the store refused it or it affected zero rows) returns
\* InternalError with kind DatabaseError, and a register reports success only
\* when its row has been added.
C15_Step(p) ==
    /\ (Serves(p, "register") /\ Asked(p).password = "")
       => /\ out'.by = p /\ out'.at = "entry"
          /\ out'.res = breaks(MissingCredentials)
          /\ UNCHANGED <<users, minted>>
    /\ (Leaves(p, "register_insert") /\ users' = users)
       => out'.res \in {breaks(DatabaseError), Raise(DatabaseError)}
    /\ (out'.by = p /\ out'.req.op = "register" /\ out'.res.ok /\ out'.res.body.success)
       => /\ pc[p] = "register_insert"
          /\ local[p].user[1] \in users' \ users
C15_RegisterFailures == [][\A p \in Procs : C15_Step(p)]_vars

\* an insert of register that met no conflicting account has affected zero rows
\* and the register has returned the DatabaseError envelope
C15_Witness ==
    /\ out.req.op = "register" /\ out.at = "register_insert"
    /\ out.res = breaks(DatabaseError)
    /\ \A u \in users : u.username # out.req.username /\ u.email # out.req.email

\* C16: no validate returns SessionExpired: the result of a validate, and the
\* auth_result of a logout, is Success or InvalidSession, also when the validation
\* found the session expired and deleted it.
C16_NeverSessionExpired ==
    /\ (out.req.op = "validate" /\ out.res.ok)
       => /\ out.res.body.auth_result # SessionExpired
          /\ out.res.body.auth_result \in {AuthSuccess, InvalidSession}
    /\ (out.req.op = "logout" /\ out.res.ok)
       => /\ out.res.body.value.auth_result # SessionExpired
          /\ out.res.body.value.auth_result \in {AuthSuccess, InvalidSession}

\* a validate that found its session expired has deleted the only row of the
\* store and has returned InvalidSession
C16_Witness ==
    /\ out.req.op = "validate" /\ out.at = "auth_delete"
    /\ out.res = OkAuth(InvalidSession)
    /\ out.req.session_id[1] \in removed
    /\ sessions = {}

\* C17: login does not re-evaluate expiry.  A login whose session read meets a
\* row of the account, expired or not, returns that row's token, owner and expiry
\* as a success, leaves the store unchanged and draws no new session id; no step
\* of a login removes a row; a login goes on to insert a fresh session only when
\* its read met no row of the account; and a row that has expired leaves the
\* store only through the token-only delete of a validation (a validate, or the
\* validation inside a logout) of its token.
RowsOf(uuid) == {s \in sessions : s.belongs_to = uuid}
C17_Login(p) ==
    /\ (Leaves(p, "login_session") /\ RowsOf(req[p].uuid) # {} /\ ~StoreFailed(out'))
       => /\ \E s \in RowsOf(req[p].uuid) :
               out'.res = proceeds(LoggedInStudent(s.ssid, s.belongs_to, s.expires_at))
          /\ out'.by = p
          /\ UNCHANGED <<sessions, drawn, removed>>
    /\ (Serves(p, "login") \/ Leaves(p, "login_session") \/ Leaves(p, "login_insert"))
       => sessions \subseteq sessions'
    /\ (pc'[p] = "login_insert" /\ pc[p] # "login_insert")
       => pc[p] = "login_session" /\ RowsOf(req[p].uuid) = {}
\* the handler whose delete removes rows in this step
Deleter(p) == pc[p] \in {"auth_delete", "drop_delete"} /\ out'.by = p
C17_ExpiredRemovedByValidation ==
    \A s \in sessions \ sessions' :
      now > s.expires_at
      => \E p \in Procs : Deleter(p) /\ pc[p] = "auth_delete" /\ Token(p) = s.ssid
C17_RemovedByValidationOrLogout ==
    \A s \in sessions \ sessions' :
      \E p \in Procs :
        /\ Deleter(p) /\ Token(p) = s.ssid
        /\ \/ pc[p] = "auth_delete"
           \/ pc[p] = "drop_delete" /\ req[p].uuid = s.belongs_to
Reported(o) == o.res.body.value.value[1].drop_success
C18_Step(p) ==
    (ReturnsFrom(p, "drop_delete") /\ out'.res.ok)
    => /\ Reported(out')
            => /\ Token(p) \notin removed /\ Token(p) \in removed'
               /\ \E s \in sessions \ sessions' :
                    s.ssid = Token(p) /\ s.belongs_to = req[p].uuid
       /\ \A s \in sessions' : ~(s.ssid = Token(p) /\ s.belongs_to = req[p].uuid)
       /\ (\A s \in sessions' : s.ssid # Token(p)) => Token(p) \in removed'
C18_ConcurrentLogouts ==
    /\ [][(\A p \in Procs : C18_Step(p)) /\ removed \subseteq removed']_vars
    /\ []RemovedStayGone

\* the second of two concurrent logouts of one token by its owner has reported
\* drop_success false: both validated the token while nothing had expired yet,
\* and the other one's delete came first
C18_Witness ==
    /\ out.req.op = "logout" /\ out.at = "drop_delete" /\ out.res.ok
    /\ out.req.uuid = 1 /\ ~Reported(out)
    /\ out.req.session_id[1] \in removed
    /\ now <= SessionLifetime
    /\ sessions = {}

\* C19: validate never removes a session that is not expired.  In every
\* interleaving with logins, logouts and other validations, the token-only
\* delete that a validation issues after its read removes nothing or rows of
\* its token whose expiry is before the current time; a stored row's token,
\* owner and expiry never change (a row is only ever inserted or removed), and
\* a token that was removed is not issued again.
C19_Step(p) ==
    Leaves(p, "auth_delete")
    => /\ sessions' \subseteq sessions
       /\ \A s \in sessions \ sessions' : s.ssid = Token(p) /\ s.expires_at < now
C19_RowsNotRewritten ==
    \A s \in sessions' :
      s \notin sessions
      => /\ \A t \in sessions : t.ssid # s.ssid
         /\ s.ssid \notin removed
C19_ValidateSparesUnexpired ==
    [][(\A p \in Procs : C19_Step(p)) /\ C19_RowsNotRewritten]_vars

\* a validation has deleted the expired row of its token and returned while an
\* unexpired session is in the store, untouched
C19_Witness ==
    /\ out.req.op = "validate" /\ out.at = "auth_delete" /\ ~StoreFailed(out)
    /\ out.req.session_id[1] \in removed
    /\ \E s \in sessions : now <= s.expires_at

\* C20: a logout that presents an expired token deletes that session row in its
\* validation step whatever owner it claims, even a wrong one, and returns
\* auth_result InvalidSession with no drop payload; the token-and-owner match
\* protects only unexpired sessions: a logout removes a row of another owner
\* than the claimed one only in that validation delete, and only an expired row.
ExpiredRow(ssid) == \E s \in sessions : s.ssid = ssid /\ now > s.expires_at
C20_Step(p) ==
    /\ (Serves(p, "logout") /\ ~AbsentOrEmpty(Asked(p).session_id)
          /\ ExpiredRow(Asked(p).session_id[1]) /\ ~StoreFailed(out'))
       => /\ pc'[p] = "auth_delete" /\ req'[p] = Asked(p)
          /\ UNCHANGED <<sessions, removed>>
    /\ (Leaves(p, "auth_delete") /\ req[p].op = "logout" /\ ~StoreFailed(out'))
       => /\ sessions' = {s \in sessions : s.ssid # Token(p)}
          /\ out'.by = p /\ out'.at = "auth_delete" /\ pc'[p] = "idle"
          /\ out'.res = proceeds(SessionBasedResponse(InvalidSession, <<>>))
    /\ (Deleter(p) /\ req[p].op = "logout")
       => \A s \in sessions \ sessions' :
            s.belongs_to # req[p].uuid
            => pc[p] = "auth_delete" /\ s.ssid = Token(p) /\ now > s.expires_at
C20_LogoutExpiredToken == [][\A p \in Procs : C20_Step(p)]_vars

\* a logout claiming an owner that is not the session's has deleted the expired
\* row of its token and returned InvalidSession with no drop payload
C20_Witness ==
    /\ out.req.op = "logout" /\ out.at = "auth_delete"
    /\ out.res = proceeds(SessionBasedResponse(InvalidSession, <<>>))
    /\ out.req.uuid = 2
    /\ out.req.session_id[1] \in removed
    /\ \A u \in users : u.uuid # 2

====
